---- MODULE Spec2Model ----
(***************************************************************************)
(* Room booking backend (be_ms): the booking transaction of                *)
(* POST /api/v1/booking (src/api.js), the Redis lock and idempotency       *)
(* helpers (src/redis/index.js), the availability ledger and the Booking   *)
(* document methods (src/mongodb/index.js).                                *)
(*                                                                         *)
(* Calendar dates are the integers 1..MaxDate (one per UTC midnight).      *)
(* A booking attempt is one HTTP request; it advances one awaited store    *)
(* operation at a time, so attempts interleave at every await.             *)
(***************************************************************************)
EXTENDS Integers, Sequences, FiniteSets, TLC

\* ---------------------------------------------------------------- bounds
NumRooms == 2
MaxDate == 3
MaxUnits == 2
MaxQty == 2
NumKeys == 1
NumAttempts == 2
NumCancels == 2

Rooms == 1..NumRooms
\* the ids a request can name: 0 is the id of no Room document
RoomIds == 0..NumRooms
Dates == 1..MaxDate
Keys == 1..NumKeys
Attempts == 1..NumAttempts
Cancellers == 1..NumCancels

VARIABLES
    transactionsSupported,  \* serverInfo.transactionsSupported
    total_units,            \* Availability.total_units (initializeAvailability's totalUnits)
    available_units,        \* Availability.available_units (committed), per room and date
    lock,                   \* Redis lock:room:<id> -> owner token (0: no key)
    idem,                   \* Redis idem:<key> -> booking id (0: no key)
    bookings,               \* Booking collection, a booking's id is its index
    att,                    \* the booking requests in flight
    cdoc                    \* Booking documents loaded in memory for cancel()

vars == <<transactionsSupported, total_units, available_units, lock, idem,
          bookings, att, cdoc>>

\* ------------------------------------------------------- pure functions

\* Room.price_cents
price_cents(r) == 100 * r

getDateRangeDescending(startDate, endDate) ==
    [n \in 1..(IF endDate >= startDate THEN endDate - startDate + 1 ELSE 0)
        |-> endDate - n + 1]

\* getDateRange: every date from startDate to endDate, both included
getDateRange(startDate, endDate) ==
    [n \in 1..(IF endDate >= startDate THEN endDate - startDate + 1 ELSE 0)
        |-> startDate + n - 1]

\* BookingSchema.virtual('nights')
nights(b) == b.end_date - b.start_date

\* the filter of the conditional decrement: available_units: { $gte: qty }
FilterNoGuard(units, qty) == TRUE
FilterMatches(units, qty) == units >= qty

\* Room.findOne({ _id: room_id, is_active: true })
RoomFound(r) == r \in Rooms

\* validateDateRange: only end < start is refused
DateRangeValid(s, e) == ~(e < s)

PreSaveNever(s, e) == FALSE

\* BookingSchema.pre('save'): end_date <= start_date throws
PreSaveThrows(s, e) == e <= s

Range(f) == {f[x] : x \in DOMAIN f}

NoRow == [d \in Dates |-> 0]

IdleAttempt ==
    [pc |-> "idle", room_id |-> 0, start_date |-> 0, end_date |-> 0,
     qty |-> 0, idemKey |-> 0, i |-> 0, resp |-> 0,
     bid |-> 0, dec |-> {}, snap |-> NoRow]

NoDoc == [pc |-> "none", id |-> 0, status |-> "none", result |-> "none"]

\* the days of the request of attempt a, in loop order
Days(a) == getDateRange(att[a].start_date, att[a].end_date)

\* the dates attempt a has written inside its open transaction
WriteSet(a) ==
    IF transactionsSupported /\ att[a].pc \in {"days", "create"}
    THEN {Days(a)[n] : n \in 1..att[a].i}
    ELSE {}

WriteConflictNever(a, r, d) == FALSE

\* another open transaction holds an uncommitted write of (r, d), or the
\* document changed after the snapshot of a was taken
WriteConflict(a, r, d) ==
    \/ \E b \in Attempts \ {a} : att[b].room_id = r /\ d \in WriteSet(b)
    \/ available_units[r][d] # att[a].snap[d]

IdemHitNever(k) == FALSE

\* if (idemKey) { prev = await getIdempotencyKey(idemKey); if (prev) ... }
IdemHit(k) == k # 0 /\ idem[k] # 0

\* --------------------------------------------------------------- Init
Init ==
    /\ transactionsSupported \in BOOLEAN
    /\ total_units \in 1..MaxUnits
    /\ available_units = [r \in Rooms |-> [d \in Dates |-> total_units]]
    /\ lock = [r \in RoomIds |-> 0]
    /\ idem = [k \in Keys |-> 0]
    /\ bookings = <<>>
    /\ att = [a \in Attempts |-> IdleAttempt]
    /\ cdoc = [c \in Cancellers |-> NoDoc]

\* ------------------------------------------------ POST /api/v1/booking

\* the handler has returned: its locals are gone, the response stays
Finish(a, code) ==
    [IdleAttempt EXCEPT !.pc = "done", !.resp = code, !.bid = att[a].bid]

RespondNoRelease(a, code) == Finish(a, code)

\* response sent inside try: the finally block still releases the lock;
\* an open transaction was aborted, its writes are gone
Respond(a, code) ==
    [att[a] EXCEPT !.pc = "release", !.resp = code,
                   !.i = IF transactionsSupported THEN 0 ELSE @,
                   !.snap = NoRow]

\* validateDateRange, quantity check, then getIdempotencyKey
\* (requests are interchangeable, so they are numbered in the order they arrive)
Submit(a, r, s, e, q, k) ==
    /\ att[a].pc = "idle"
    /\ \A b \in Attempts : b < a => att[b].pc # "idle"
    /\ LET req == [IdleAttempt EXCEPT !.room_id = r, !.start_date = s,
                       !.end_date = e, !.qty = q, !.idemKey = k]
       IN att' = [att EXCEPT ![a] =
                    IF ~DateRangeValid(s, e)
                    THEN [IdleAttempt EXCEPT !.pc = "done", !.resp = 400]
                    ELSE IF IdemHit(k)
                    THEN [IdleAttempt EXCEPT !.pc = "done", !.resp = 200,
                                             !.bid = idem[k]]
                    ELSE [req EXCEPT !.pc = "lock"]]
    /\ UNCHANGED <<transactionsSupported, total_units, available_units, lock,
                   idem, bookings, cdoc>>

LockFreeAlways(r) == TRUE

LockFreeEverywhere(r) == \A x \in RoomIds : lock[x] = 0

\* the NX condition of SET: the key is absent (never set, deleted or expired)
LockFree(r) == lock[r] = 0

\* acquireLock: SET lockKey token PX timeout NX
AcquireLock(a) ==
    /\ att[a].pc = "lock"
    /\ IF LockFree(att[a].room_id)
       THEN /\ lock' = [lock EXCEPT ![att[a].room_id] = a]
            /\ att' = [att EXCEPT ![a].pc = "room"]
       ELSE /\ att' = [att EXCEPT ![a] = Finish(a, 423)]
            /\ UNCHANGED lock
    /\ UNCHANGED <<transactionsSupported, total_units, available_units, idem,
                   bookings, cdoc>>

\* startTransaction, contact_email check, Room.findOne, getDateRange
FindRoom(a, contactOk) ==
    /\ att[a].pc = "room"
    /\ att' = [att EXCEPT ![a] =
                 IF ~contactOk
                 THEN Respond(a, 403)
                 ELSE IF ~RoomFound(att[a].room_id)
                 THEN Respond(a, 404)
                 ELSE [@ EXCEPT !.pc = "days", !.i = 0,
                          !.snap = IF transactionsSupported
                                   THEN available_units[att[a].room_id]
                                   ELSE NoRow]]
    /\ UNCHANGED <<transactionsSupported, total_units, available_units, lock,
                   idem, bookings, cdoc>>

\* one iteration of the day loop: Availability.updateOne with $gte / $inc
DecrementDay(a) ==
    /\ att[a].pc = "days"
    /\ LET r == att[a].room_id
           q == att[a].qty
           d == Days(a)[att[a].i + 1]
           last == att[a].i + 1 = Len(Days(a))
       IN IF transactionsSupported
          THEN /\ att' = [att EXCEPT ![a] =
                            IF ~FilterMatches(att[a].snap[d], q)
                            THEN Respond(a, 409)
                            ELSE IF WriteConflict(a, r, d)
                            THEN Respond(a, 500)
                            ELSE [@ EXCEPT !.i = @ + 1,
                                     !.pc = IF last THEN "create" ELSE "days"]]
               /\ UNCHANGED available_units
          ELSE IF FilterMatches(available_units[r][d], q)
          THEN /\ available_units' = [available_units EXCEPT ![r][d] = @ - q]
               /\ att' = [att EXCEPT ![a] =
                            [@ EXCEPT !.i = @ + 1, !.dec = @ \cup {d},
                                      !.pc = IF last THEN "create" ELSE "days"]]
          ELSE /\ att' = [att EXCEPT ![a] = Respond(a, 409)]
               /\ UNCHANGED available_units
    /\ UNCHANGED <<transactionsSupported, total_units, lock, idem, bookings, cdoc>>

\* req.user.id: every request is authenticated, each as a user of its own
userId(a) == a

HasIdemKeyNever(a) == FALSE

\* if (idemKey) in front of setIdempotencyKey
HasIdemKey(a) == att[a].idemKey # 0

\* Booking.create (the pre-save hook included) and commitTransaction
CreateBooking(a) ==
    /\ att[a].pc = "create"
    /\ LET r == att[a].room_id
           q == att[a].qty
           days == Range(Days(a))
           totalPrice == price_cents(r) * Len(Days(a)) * q
           doc == [user_id |-> userId(a),
                   room_id |-> r, start_date |-> att[a].start_date,
                   end_date |-> att[a].end_date, quantity |-> q,
                   total_price_cents |-> totalPrice, status |-> "confirmed",
                   cancellation_reason |-> 0,
                   token |-> att[a].idemKey]
       IN IF PreSaveThrows(att[a].start_date, att[a].end_date)
          THEN /\ att' = [att EXCEPT ![a] = Respond(a, 500)]
               /\ UNCHANGED <<bookings, available_units>>
          ELSE /\ bookings' = Append(bookings, doc)
               /\ available_units' =
                    IF transactionsSupported
                    THEN [available_units EXCEPT ![r] =
                            [d \in Dates |-> IF d \in days THEN @[d] - q ELSE @[d]]]
                    ELSE available_units
               /\ att' = [att EXCEPT ![a] =
                            [@ EXCEPT !.bid = Len(bookings) + 1,
                                      !.dec = days,
                                      !.snap = NoRow,
                                      !.pc = IF HasIdemKey(a)
                                             THEN "idem" ELSE "populate"]]
    /\ UNCHANGED <<transactionsSupported, total_units, lock, idem, cdoc>>

\* setIdempotencyKey: SET idem:<key> <booking id> EX ttl
StoreIdem(a) ==
    /\ att[a].pc = "idem"
    /\ idem' = [idem EXCEPT ![att[a].idemKey] = att[a].bid]
    /\ att' = [att EXCEPT ![a].pc = "populate"]
    /\ UNCHANGED <<transactionsSupported, total_units, available_units, lock,
                   bookings, cdoc>>

\* Booking.findById(...).populate(...), then res.status(201)
Populate(a) ==
    /\ att[a].pc = "populate"
    /\ att' = [att EXCEPT ![a] = [@ EXCEPT !.pc = "release", !.resp = 201]]
    /\ UNCHANGED <<transactionsSupported, total_units, available_units, lock,
                   idem, bookings, cdoc>>

\* releaseLock, first await: GET lockKey and compare with the token
ReleaseGet(a) ==
    /\ att[a].pc = "release"
    /\ att' = [att EXCEPT ![a] =
                 IF lock[att[a].room_id] = a
                 THEN [@ EXCEPT !.pc = "del"]
                 ELSE Finish(a, att[a].resp)]
    /\ UNCHANGED <<transactionsSupported, total_units, available_units, lock,
                   idem, bookings, cdoc>>

\* releaseLock, second await: DEL lockKey
ReleaseDel(a) ==
    /\ att[a].pc = "del"
    /\ lock' = [lock EXCEPT ![att[a].room_id] = 0]
    /\ att' = [att EXCEPT ![a] = Finish(a, att[a].resp)]
    /\ UNCHANGED <<transactionsSupported, total_units, available_units, idem,
                   bookings, cdoc>>

LockNeverExpires(r) == FALSE

\* the PX lease of a lock key runs out
LockExpire(r) ==
    /\ lock[r] # 0
    /\ lock' = [lock EXCEPT ![r] = 0]
    /\ UNCHANGED <<transactionsSupported, total_units, available_units, idem,
                   bookings, att, cdoc>>

\* the EX retention of an idempotency key runs out
IdemExpire(k) ==
    /\ idem[k] # 0
    /\ idem' = [idem EXCEPT ![k] = 0]
    /\ UNCHANGED <<transactionsSupported, total_units, available_units, lock,
                   bookings, att, cdoc>>

\* ------------------------------------------- Booking.methods.cancel

\* a Booking document is read into memory (Booking.findById / findOne)
\* (documents are interchangeable, so they are numbered in the order they load)
LoadBooking(c, b) ==
    /\ cdoc[c].pc = "none"
    /\ \A x \in Cancellers : x < c => cdoc[x].pc # "none"
    /\ b \in 1..Len(bookings)
    /\ cdoc' = [cdoc EXCEPT ![c] =
                  [pc |-> "loaded", id |-> b, status |-> bookings[b].status,
                   result |-> "none"]]
    /\ UNCHANGED <<transactionsSupported, total_units, available_units, lock,
                   idem, bookings, att>>

\* cancel(reason) on the loaded document: status check, then this.save()
Cancel(c) ==
    /\ cdoc[c].pc = "loaded"
    /\ IF cdoc[c].status = "cancelled"
       THEN /\ cdoc' = [cdoc EXCEPT ![c].result = "error"]
            /\ UNCHANGED bookings
       ELSE /\ cdoc' = [cdoc EXCEPT ![c].status = "cancelled",
                                    ![c].result = "ok"]
            /\ bookings' = [bookings EXCEPT
                              ![cdoc[c].id].status = "cancelled",
                              ![cdoc[c].id].cancellation_reason = c]
    /\ UNCHANGED <<transactionsSupported, total_units, available_units, lock,
                   idem, att>>

\* ------------------------------------------------- failures of the store

\* a rejection that leaves the async handler: Express 4 does not catch it,
\* so no answer is sent (code 0)
NoAnswer == 0

\* acquireLock rejects (Redis unreachable): the await stands before the try
\* block, the handler ends without an answer
AcquireLockThrows(a) ==
    /\ att[a].pc = "lock"
    /\ att' = [att EXCEPT ![a] = Finish(a, NoAnswer)]
    /\ UNCHANGED <<transactionsSupported, total_units, available_units, lock,
                   idem, bookings, cdoc>>

\* mongoose.startSession() rejects: the await stands before the try block, so
\* neither catch nor finally runs and no answer is sent
StartSessionThrows(a) ==
    /\ att[a].pc = "room"
    /\ transactionsSupported
    /\ att' = [att EXCEPT ![a] = Finish(a, NoAnswer)]
    /\ UNCHANGED <<transactionsSupported, total_units, available_units, lock,
                   idem, bookings, cdoc>>

\* Booking.create rejects for a reason of the store: catch aborts the
\* transaction if there is one and answers 500, finally releases the lock
CreateFails(a) ==
    /\ att[a].pc = "create"
    /\ att' = [att EXCEPT ![a] = Respond(a, 500)]
    /\ UNCHANGED <<transactionsSupported, total_units, available_units, lock,
                   idem, bookings, cdoc>>

\* abortTransaction rejects on the 409 path of the day loop: control passes
\* to catch, which calls abortTransaction again; if that rejects too the
\* handler ends without an answer, otherwise catch answers 500; finally
\* releases the lock either way
RollbackFails(a, code) ==
    /\ att[a].pc = "days"
    /\ transactionsSupported
    /\ ~FilterMatches(att[a].snap[Days(a)[att[a].i + 1]], att[a].qty)
    /\ att' = [att EXCEPT ![a] = Respond(a, code)]
    /\ UNCHANGED <<transactionsSupported, total_units, available_units, lock,
                   idem, bookings, cdoc>>

\* setIdempotencyKey or the read-back of the booking rejects after the
\* booking was created and committed: without a session catch answers 500;
\* with one, catch's abortTransaction rejects on the committed transaction
\* and no answer is sent; finally releases the lock
PostCommitFails(a) ==
    /\ att[a].pc \in {"idem", "populate"}
    /\ att' = [att EXCEPT ![a] =
                 [@ EXCEPT !.pc = "release",
                           !.resp = IF transactionsSupported THEN NoAnswer ELSE 500]]
    /\ UNCHANGED <<transactionsSupported, total_units, available_units, lock,
                   idem, bookings, cdoc>>

\* ------------------------------------------- availability maintenance

\* the value of available_units[r][d] when the Availability collection holds
\* no document for (r, d): no filter on available_units matches it
NoRecord == -1

DuplicateKeyNever(r, d) == FALSE

\* the unique index on (room_id, date) refuses a second document
DuplicateKey(r, d) == available_units[r][d] # NoRecord

\* the state after initializeAvailability(room, total_units, first day, day w)
\* for every room: documents for the days up to w, none for the later days
InitWindow ==
    /\ transactionsSupported \in BOOLEAN
    /\ total_units \in 1..MaxUnits
    /\ \E w \in 1..MaxDate :
          available_units = [r \in Rooms |-> [d \in Dates |->
                                IF d <= w THEN total_units ELSE NoRecord]]
    /\ lock = [r \in RoomIds |-> 0]
    /\ idem = [k \in Keys |-> 0]
    /\ bookings = <<>>
    /\ att = [a \in Attempts |-> IdleAttempt]
    /\ cdoc = [c \in Cancellers |-> NoDoc]

\* initializeAvailability(roomId, totalUnits, ...): one document of its
\* insertMany({ ordered: false }), with total_units = available_units =
\* totalUnits; a duplicate key error (11000) is ignored and leaves the
\* stored document as it is
InsertAvailability(r, d, totalUnits) ==
    /\ available_units' =
          IF DuplicateKey(r, d)
          THEN available_units
          ELSE [available_units EXCEPT ![r][d] = totalUnits]
    /\ UNCHANGED <<transactionsSupported, total_units, lock, idem, bookings,
                   att, cdoc>>

\* cleanup(dryRun): in live mode deleteMany({ date: { $lt: thirtyDaysAgo } });
\* thirtyDaysAgo is fixed by the day the command is run
Cleanup(dryRun, thirtyDaysAgo) ==
    /\ available_units' =
          IF dryRun
          THEN available_units
          ELSE [r \in Rooms |-> [d \in Dates |->
                    IF d < thirtyDaysAgo THEN NoRecord ELSE available_units[r][d]]]
    /\ UNCHANGED <<transactionsSupported, total_units, lock, idem, bookings,
                   att, cdoc>>

\* ------------------------------------------- GET /api/v1/rooms/search

\* validateSearchDateRange: only end < start is refused
SearchRangeValid(s, e) == ~(e < s)

\* first $match: the records of the range that have available_units > 0
SearchMatch(r, s, e) ==
    {d \in Dates : s <= d /\ d <= e /\ available_units[r][d] > 0}

\* $group: minAvailable = $min of available_units over the matched records
minAvailable(r, s, e) ==
    CHOOSE m \in 0..MaxUnits :
        /\ \E d \in SearchMatch(r, s, e) : available_units[r][d] = m
        /\ \A d \in SearchMatch(r, s, e) : available_units[r][d] >= m

\* the room is in the answer: it has a group, minAvailable > 0, and it is active
SearchReturns(r, s, e) ==
    /\ SearchRangeValid(s, e)
    /\ SearchMatch(r, s, e) # {}
    /\ minAvailable(r, s, e) > 0
    /\ RoomFound(r)

\* no request is being handled
Quiet == \A a \in Attempts : att[a].pc \in {"idle", "done"}

\* the smoke test's flow: search, then book one unit of a returned room for
\* the searched dates, while nothing else is being handled
SearchAndBook(a, r, s, e) ==
    /\ Quiet
    /\ SearchReturns(r, s, e)
    /\ Submit(a, r, s, e, 1, 0)

\* cancel(reason) called on behalf of user u: the method receives no caller
\* and reads none, so the step is the same for every u
CancelBy(c, u) == Cancel(c)

\* --------------------------------------------------------------- Next
\* Rooms share no ledger key and no lock key, so the specifications below
\* send their requests to one room unless a claim is about several.

\* every request for room 1: any dates, quantity and idempotency key
Next ==
    \/ \E a \in Attempts, s \in Dates, e \in Dates, q \in 1..MaxQty,
          k \in 0..NumKeys : Submit(a, 1, s, e, q, k)
    \/ \E a \in Attempts : AcquireLock(a)
    \/ \E a \in Attempts, c \in BOOLEAN : FindRoom(a, c)
    \/ \E a \in Attempts : DecrementDay(a)
    \/ \E a \in Attempts : CreateBooking(a)
    \/ \E a \in Attempts : StoreIdem(a)
    \/ \E a \in Attempts : Populate(a)
    \/ \E a \in Attempts : ReleaseGet(a)
    \/ \E a \in Attempts : ReleaseDel(a)
    \/ \E r \in Rooms : LockExpire(r)
    \/ \E k \in Keys : IdemExpire(k)

Spec == Init /\ [][Next]_vars

\* the concurrent booking test: every request asks one unit of room 1 for
\* dates 1 to 2, no idempotency key is repeated, one unit is on offer
InitPair == Init /\ total_units = 1

NextPair ==
    \/ \E a \in Attempts : Submit(a, 1, 1, 2, 1, 0)
    \/ \E a \in Attempts : AcquireLock(a)
    \/ \E a \in Attempts : FindRoom(a, TRUE)
    \/ \E a \in Attempts : DecrementDay(a)
    \/ \E a \in Attempts : CreateBooking(a)
    \/ \E a \in Attempts : Populate(a)
    \/ \E a \in Attempts : ReleaseGet(a)
    \/ \E a \in Attempts : ReleaseDel(a)
    \/ \E r \in Rooms : LockExpire(r)

SpecPair == InitPair /\ [][NextPair]_vars

\* bookings of room 1 without idempotency keys, and cancellations
NextCancel ==
    \/ \E a \in Attempts, s \in Dates, e \in Dates, q \in 1..MaxQty :
          Submit(a, 1, s, e, q, 0)
    \/ \E a \in Attempts : AcquireLock(a)
    \/ \E a \in Attempts : FindRoom(a, TRUE)
    \/ \E a \in Attempts : DecrementDay(a)
    \/ \E a \in Attempts : CreateBooking(a)
    \/ \E a \in Attempts : Populate(a)
    \/ \E a \in Attempts : ReleaseGet(a)
    \/ \E a \in Attempts : ReleaseDel(a)
    \/ \E r \in Rooms : LockExpire(r)
    \/ \E c \in Cancellers, b \in 1..NumAttempts : LoadBooking(c, b)
    \/ \E c \in Cancellers : Cancel(c)

SpecCancel == Init /\ [][NextCancel]_vars

\* the concurrent booking test where handlers may stall for ever but Redis
\* keeps time: a lock key that stays set meets the end of its PX lease
SpecExpiry ==
    InitPair /\ [][NextPair]_vars /\ \A r \in Rooms : WF_vars(LockExpire(r))

\* every holder finishes within its lease: no lock key expires
NextLease ==
    \/ \E a \in Attempts, s \in Dates, e \in Dates, q \in 1..MaxQty :
          Submit(a, 1, s, e, q, 0)
    \/ \E a \in Attempts : AcquireLock(a)
    \/ \E a \in Attempts, c \in BOOLEAN : FindRoom(a, c)
    \/ \E a \in Attempts : DecrementDay(a)
    \/ \E a \in Attempts : CreateBooking(a)
    \/ \E a \in Attempts : Populate(a)
    \/ \E a \in Attempts : ReleaseGet(a)
    \/ \E a \in Attempts : ReleaseDel(a)

SpecLease == Init /\ [][NextLease]_vars

\* bookings of room 1 while the store may fail
NextFault ==
    \/ \E a \in Attempts, s \in Dates, e \in Dates, q \in 1..MaxQty :
          Submit(a, 1, s, e, q, 0)
    \/ \E a \in Attempts : AcquireLock(a)
    \/ \E a \in Attempts : FindRoom(a, TRUE)
    \/ \E a \in Attempts : AcquireLockThrows(a)
    \/ \E a \in Attempts : StartSessionThrows(a)
    \/ \E a \in Attempts, code \in {NoAnswer, 500} : RollbackFails(a, code)
    \/ \E a \in Attempts : PostCommitFails(a)
    \/ \E a \in Attempts : DecrementDay(a)
    \/ \E a \in Attempts : CreateBooking(a)
    \/ \E a \in Attempts : CreateFails(a)
    \/ \E a \in Attempts : Populate(a)
    \/ \E a \in Attempts : ReleaseGet(a)
    \/ \E a \in Attempts : ReleaseDel(a)
    \/ \E r \in Rooms : LockExpire(r)

SpecFault == Init /\ [][NextFault]_vars

\* requests that name room 1 or no room, with a contact_email that may differ
NextReject ==
    \/ \E a \in Attempts, r \in 0..1, s \in Dates, e \in Dates,
          k \in 0..NumKeys : Submit(a, r, s, e, 1, k)
    \/ \E a \in Attempts : AcquireLock(a)
    \/ \E a \in Attempts, c \in BOOLEAN : FindRoom(a, c)
    \/ \E a \in Attempts : DecrementDay(a)
    \/ \E a \in Attempts : CreateBooking(a)
    \/ \E a \in Attempts : StoreIdem(a)
    \/ \E a \in Attempts : Populate(a)
    \/ \E a \in Attempts : ReleaseGet(a)
    \/ \E a \in Attempts : ReleaseDel(a)
    \/ \E r \in RoomIds : LockExpire(r)

SpecReject == Init /\ [][NextReject]_vars

\* one-unit requests for any of the rooms
NextRooms ==
    \/ \E a \in Attempts, r \in Rooms, s \in Dates, e \in Dates :
          Submit(a, r, s, e, 1, 0)
    \/ \E a \in Attempts : AcquireLock(a)
    \/ \E a \in Attempts : FindRoom(a, TRUE)
    \/ \E a \in Attempts : DecrementDay(a)
    \/ \E a \in Attempts : CreateBooking(a)
    \/ \E a \in Attempts : Populate(a)
    \/ \E a \in Attempts : ReleaseGet(a)
    \/ \E a \in Attempts : ReleaseDel(a)
    \/ \E r \in Rooms : LockExpire(r)

SpecRooms == Init /\ [][NextRooms]_vars

\* one-unit bookings of room 1 over a ledger that ends before the last
\* date, while availability initialisation is run again
NextWindow ==
    \/ \E a \in Attempts, s \in Dates, e \in Dates : Submit(a, 1, s, e, 1, 0)
    \/ \E a \in Attempts : AcquireLock(a)
    \/ \E a \in Attempts : FindRoom(a, TRUE)
    \/ \E a \in Attempts : DecrementDay(a)
    \/ \E a \in Attempts : CreateBooking(a)
    \/ \E a \in Attempts : Populate(a)
    \/ \E a \in Attempts : ReleaseGet(a)
    \/ \E a \in Attempts : ReleaseDel(a)
    \/ \E r \in Rooms : LockExpire(r)
    \/ \E d \in Dates, u \in 1..MaxUnits : InsertAvailability(1, d, u)

SpecWindow == InitWindow /\ [][NextWindow]_vars

\* one-unit bookings of room 1 and runs of the cleanup command
NextCleanup ==
    \/ \E a \in Attempts, s \in Dates, e \in Dates : Submit(a, 1, s, e, 1, 0)
    \/ \E a \in Attempts : AcquireLock(a)
    \/ \E a \in Attempts : FindRoom(a, TRUE)
    \/ \E a \in Attempts : DecrementDay(a)
    \/ \E a \in Attempts : CreateBooking(a)
    \/ \E a \in Attempts : Populate(a)
    \/ \E a \in Attempts : ReleaseGet(a)
    \/ \E a \in Attempts : ReleaseDel(a)
    \/ \E r \in Rooms : LockExpire(r)
    \/ \E dryRun \in BOOLEAN, c \in Dates : Cleanup(dryRun, c)

SpecCleanup == Init /\ [][NextCleanup]_vars

\* every booking follows a search that returned its room for its dates
NextSearch ==
    \/ \E a \in Attempts, s \in Dates, e \in Dates : SearchAndBook(a, 1, s, e)
    \/ \E a \in Attempts : AcquireLock(a)
    \/ \E a \in Attempts : FindRoom(a, TRUE)
    \/ \E a \in Attempts : DecrementDay(a)
    \/ \E a \in Attempts : CreateBooking(a)
    \/ \E a \in Attempts : Populate(a)
    \/ \E a \in Attempts : ReleaseGet(a)
    \/ \E a \in Attempts : ReleaseDel(a)
    \/ \E r \in Rooms : LockExpire(r)

SpecSearch == Init /\ [][NextSearch]_vars

\* ------------------------------------------------------------- claims

InFlight(a) == att[a].pc \notin {"idle", "done"}
AllDone == \A a \in Attempts : att[a].pc = "done"
Ids == 1..Len(bookings)

\* the dates a booking's request made the day loop visit
BookedDates(b) == Range(getDateRange(b.start_date, b.end_date))

\* the day-set of the specification: start_date to the day before end_date
NightDates(s, e) == {d \in Dates : s <= d /\ d < e}

RECURSIVE SumConfirmed(_, _, _)
\* the quantity the first n bookings hold of (r, d) while confirmed
SumConfirmed(n, r, d) ==
    IF n = 0 THEN 0
    ELSE SumConfirmed(n - 1, r, d)
         + (IF /\ bookings[n].status = "confirmed"
               /\ bookings[n].room_id = r
               /\ d \in BookedDates(bookings[n])
            THEN bookings[n].quantity ELSE 0)

\* C1: every availability record keeps 0 <= available_units <= total_units,
\* in every reachable state, attempts overlapping after a lease expiry included
C1_UnitsWithinBounds ==
    \A r \in Rooms, d \in Dates :
        0 <= available_units[r][d] /\ available_units[r][d] <= total_units

\* two attempts are past the lock of the same room at once, both have
\* decremented, and a day is sold out
C1_Witness ==
    \E a \in Attempts, b \in Attempts :
        /\ a # b
        /\ att[a].pc \in {"days", "create"} /\ att[b].pc \in {"days", "create"}
        /\ att[a].room_id = att[b].room_id
        /\ att[a].dec # {} /\ att[b].dec # {}
        /\ \E d \in Dates : available_units[att[a].room_id][d] = 0

\* C2: on every room and date the quantities of the confirmed bookings that
\* hold the date (every date from start_date to end_date, which contains the
\* day-set start_date..end_date-1) sum to at most total_units
C2_ConfirmedWithinCapacity ==
    \A r \in Rooms, d \in Dates : SumConfirmed(Len(bookings), r, d) <= total_units

\* two confirmed bookings share a date and use up its capacity
C2_Witness ==
    \E d \in Dates :
        /\ SumConfirmed(Len(bookings), 1, d) = total_units
        /\ Cardinality({b \in Ids : /\ bookings[b].status = "confirmed"
                                   /\ d \in BookedDates(bookings[b])}) = 2

C4_RolledBackOn409 ==
    \A a \in Attempts : att[a].resp = 409 => att[a].dec = {} /\ att[a].bid = 0

\* C5: while no attempt is in flight, available_units of every room-day is
\* total_units minus the quantities of the confirmed bookings that decremented it
C5_LedgerOwnedByConfirmed ==
    (\A a \in Attempts : ~InFlight(a)) =>
        \A r \in Rooms, d \in Dates :
            available_units[r][d] = total_units - SumConfirmed(Len(bookings), r, d)

\* C6: a valid request whose idempotency key has a stored result is answered
\* 200 with the stored id, which is the id of a booking created under that
\* key; no booking is created and no room-day is decremented
C6_ReplayReturnsStoredBooking ==
    [][\A a \in Attempts, s \in Dates, e \in Dates, q \in 1..MaxQty, k \in Keys :
          (Submit(a, 1, s, e, q, k) /\ DateRangeValid(s, e) /\ idem[k] # 0) =>
              /\ att'[a].pc = "done" /\ att'[a].resp = 200
              /\ att'[a].bid = idem[k]
              /\ idem[k] \in Ids /\ bookings[idem[k]].token = k
              /\ bookings' = bookings
              /\ available_units' = available_units]_vars

\* a request was replayed and the key's booking is the only booking
C6_Witness ==
    \E a \in Attempts :
        /\ att[a].pc = "done" /\ att[a].resp = 200
        /\ Len(bookings) = 1 /\ att[a].bid = 1 /\ bookings[1].token # 0
        /\ \E b \in Attempts : att[b].resp = 201 /\ att[b].bid = 1

\* C7: a booked request with start_date < end_date has decremented exactly
\* the dates start_date to end_date minus one day
C7_CheckoutDayNotDecremented ==
    \A a \in Attempts :
        (InFlight(a) /\ att[a].bid # 0) =>
            att[a].dec = NightDates(att[a].start_date, att[a].end_date)

\* C8: total_price_cents is price_cents times nights times quantity
C8_PriceIsNightsTimesQuantity ==
    \A b \in Ids :
        bookings[b].total_price_cents =
            price_cents(bookings[b].room_id) * nights(bookings[b]) * bookings[b].quantity

\* C9: a cancel() that succeeds marks the booking cancelled and gives its
\* quantity back on exactly the dates the booking decremented
C9_CancelRestoresDates ==
    [][\A c \in Cancellers :
          (Cancel(c) /\ cdoc[c].status # "cancelled") =>
              LET b == bookings[cdoc[c].id]
              IN /\ bookings'[cdoc[c].id].status = "cancelled"
                 /\ \A r \in Rooms, d \in Dates :
                      available_units'[r][d] =
                          IF r = b.room_id /\ d \in BookedDates(b)
                          THEN available_units[r][d] + b.quantity
                          ELSE available_units[r][d]]_vars

\* C10: a cancel() on a booking that is already cancelled is rejected and
\* changes neither the booking nor the ledger
C10_SecondCancelRejected ==
    [][\A c \in Cancellers :
          (Cancel(c) /\ bookings[cdoc[c].id].status = "cancelled") =>
              /\ cdoc'[c].result = "error"
              /\ bookings' = bookings
              /\ available_units' = available_units]_vars

\* the attempt holds the lock from its successful acquire to its return
Holding(a) ==
    att[a].pc \in {"room", "days", "create", "idem", "populate", "release", "del"}

\* C11: the DEL of releaseLock removes a lock key only while the key stores
\* the caller's own token, under every interleaving with expiry and acquire
C11_ReleaseDeletesOwnLockOnly ==
    [][\A a \in Attempts :
          ReleaseDel(a) => lock[att[a].room_id] \in {0, a}]_vars

\* C12: a successful acquire found no lock key for the room, and while no
\* lease expires two attempts on one room never hold the lock together
C12_OneHolderWithinLease ==
    /\ [](\A a \in Attempts, b \in Attempts :
             (a # b /\ Holding(a) /\ Holding(b)) => att[a].room_id # att[b].room_id)
    /\ [](\A a \in Attempts : Holding(a) => lock[att[a].room_id] = a)
    /\ [][\A a \in Attempts :
             (AcquireLock(a) /\ att'[a].pc = "room") =>
                 (lock[att[a].room_id] = 0 /\ lock'[att[a].room_id] = a)]_vars

\* an attempt holds the lock in its day loop while another was refused
C12_Witness ==
    \E a \in Attempts, b \in Attempts :
        /\ att[a].pc = "days" /\ att[a].i > 0
        /\ att[b].pc = "done" /\ att[b].resp = 423

\* C13: an attempt that acquired the lock does not return while the lock key
\* still stores its token, whatever step failed after the acquisition
C13_ReleasedBeforeReturn ==
    \A a \in Attempts, r \in RoomIds : att[a].pc = "done" => lock[r] # a

C15_RolledBackOnCreateFailure ==
    [][\A a \in Attempts :
          (\/ CreateFails(a)
           \/ CreateBooking(a) /\ PreSaveThrows(att[a].start_date, att[a].end_date)) =>
              /\ bookings' = bookings
              /\ att'[a].pc = "release" /\ att'[a].resp = 500
              /\ \A d \in Dates :
                    available_units'[att[a].room_id][d] =
                        available_units[att[a].room_id][d]
                        + (IF d \in att[a].dec THEN att[a].qty ELSE 0)]_vars

\* the bookable capacity of the specification: the minimum of available_units
\* over every day of the inclusive range
MinUnits(r, s, e) ==
    CHOOSE m \in 0..MaxUnits :
        /\ \E d \in s..e : available_units[r][d] = m
        /\ \A d \in s..e : available_units[r][d] >= m

\* C16: for every range start <= end the search returns the room exactly when
\* the minimum of available_units over every day of the range is positive,
\* and then reports that minimum
C16_SearchReturnsIffMinPositive ==
    \A s \in Dates, e \in Dates :
        s <= e =>
            /\ SearchReturns(1, s, e) <=> MinUnits(1, s, e) > 0
            /\ SearchReturns(1, s, e) => minAvailable(1, s, e) = MinUnits(1, s, e)

\* C17: a one-unit booking of a room the search has just returned for the
\* same dates, with nothing else touching the room, is answered 201
C17_SearchedRoomIsBookable ==
    \A a \in Attempts : att[a].resp # 0 => att[a].resp = 201

\* C18: a request answered 403 or 404 has decremented nothing and created no
\* booking, its remaining steps change no counter, booking or idempotency
\* key, and it does not return while the lock key stores its token
C18_RejectedChangesNothing ==
    /\ [](\A a \in Attempts :
             att[a].resp \in {403, 404} =>
                 /\ att[a].dec = {} /\ att[a].bid = 0
                 /\ att[a].pc = "done" => \A r \in RoomIds : lock[r] # a)
    /\ [][\A a \in Attempts, c \in BOOLEAN :
             (\/ FindRoom(a, c) /\ (~c \/ ~RoomFound(att[a].room_id))
              \/ att[a].resp \in {403, 404} /\ (ReleaseGet(a) \/ ReleaseDel(a))) =>
                 /\ att'[a].resp \in {403, 404}
                 /\ available_units' = available_units
                 /\ bookings' = bookings
                 /\ idem' = idem]_vars

\* one request was answered 404 and another 403, both have returned, and
\* no lock key is left
C18_Witness ==
    /\ \E a \in Attempts : att[a].pc = "done" /\ att[a].resp = 404
    /\ \E a \in Attempts : att[a].pc = "done" /\ att[a].resp = 403
    /\ \A r \in RoomIds : lock[r] = 0

\* C19: every booking record has end_date > start_date
C19_EndAfterStart ==
    \A b \in Ids : bookings[b].end_date > bookings[b].start_date

\* a booking exists, and a request with start_date = end_date passed the
\* date validation and was refused by the pre-save hook
C19_Witness ==
    /\ Len(bookings) > 0
    /\ \E a \in Attempts :
          /\ att[a].pc = "release" /\ att[a].resp = 500
          /\ att[a].start_date = att[a].end_date /\ att[a].i = 1

\* the ledger is what the bookings account for
LedgerMatchesBookings ==
    \A r \in Rooms, d \in Dates :
        available_units[r][d] = total_units - SumConfirmed(Len(bookings), r, d)

\* with transactions every quiescent ledger is accounted for by the bookings
\* the callers were given
LedgerWithTransactions ==
    (transactionsSupported /\ Quiet) => LedgerMatchesBookings

\* C20: without transactions the quiescent ledger is the same function of the
\* bookings the callers were given as it is with transactions
C20_LedgerSameWithoutTransactions ==
    (~transactionsSupported /\ Quiet) => LedgerMatchesBookings

\* C21: no two booking records carry the same idempotency token, whatever
\* the interleaving of the attempts that brought it
C21_OneBookingPerToken ==
    \A k \in Keys : Cardinality({b \in Ids : bookings[b].token = k}) <= 1

\* C22: a request whose end_date is not after its start_date never has a
\* decrement in the ledger and never a booking, with and without transactions
C22_BadRangeNoSideEffects ==
    \A a \in Attempts :
        (InFlight(a) /\ att[a].end_date <= att[a].start_date) =>
            (att[a].dec = {} /\ att[a].bid = 0)

\* C23: an attempt past its answer whose outcome is not a success (201, or
\* the replay 200) has created no booking
C23_FailureMeansNoBooking ==
    \A a \in Attempts :
        (att[a].pc \in {"release", "del", "done"} /\ att[a].resp \notin {200, 201}) =>
            att[a].bid = 0

\* C24: a request whose key has a stored result is answered 200 with the
\* stored id in the same step, whoever holds the room lock, and the step
\* changes no lock, counter, booking or idempotency key
C24_ReplayTouchesNothing ==
    [][\A a \in Attempts, s \in Dates, e \in Dates, q \in 1..MaxQty, k \in Keys :
          (Submit(a, 1, s, e, q, k) /\ DateRangeValid(s, e) /\ idem[k] # 0) =>
              /\ att'[a].pc = "done" /\ att'[a].resp = 200
              /\ att'[a].bid = idem[k]
              /\ lock' = lock
              /\ available_units' = available_units
              /\ bookings' = bookings
              /\ idem' = idem]_vars

\* a replay was answered while the attempt that stored the key still holds
\* the room lock
C24_Witness ==
    \E a \in Attempts, b \in Attempts :
        /\ att[a].pc = "done" /\ att[a].resp = 200
        /\ Holding(b) /\ lock[att[b].room_id] = b /\ att[a].bid = att[b].bid

\* C25: every stored key maps to an existing booking created under that key;
\* only an attempt that created a booking and has not failed writes a key,
\* and it writes its booking's id; an attempt that brought a key reaches its
\* 201 only through that write
C25_IdemRecordsAreBookings ==
    /\ [](\A k \in Keys :
             idem[k] # 0 => (idem[k] \in Ids /\ bookings[idem[k]].token = k))
    /\ [][\A a \in Attempts :
             /\ StoreIdem(a) =>
                    /\ att[a].resp = 0 /\ att[a].bid \in Ids
                    /\ idem'[att[a].idemKey] = att[a].bid
             /\ (\E k \in Keys : idem'[k] # idem[k] /\ idem'[k] # 0) =>
                    \E b \in Attempts : StoreIdem(b)
             /\ (att[a].idemKey # 0 /\ att[a].pc # "populate"
                    /\ att'[a].pc = "populate") =>
                    (att'[a].bid \in Ids /\ idem'[att[a].idemKey] = att'[a].bid)]_vars

\* a key is stored for the booking of an attempt answered 201 while another
\* attempt was refused
C25_Witness ==
    \E k \in Keys, a \in Attempts, b \in Attempts :
        /\ att[a].pc = "done" /\ att[a].resp = 201 /\ idem[k] = att[a].bid
        /\ att[b].pc = "done" /\ att[b].resp \in {409, 423}

C27_AscendingAndStopsAtFailure ==
    /\ [](\A a \in Attempts :
             (att[a].pc \in {"days", "create"} /\ ~transactionsSupported) =>
                 att[a].dec = {att[a].start_date + n - 1 : n \in 1..att[a].i})
    /\ [][\A a \in Attempts :
             /\ (DecrementDay(a) /\ att'[a].i = att[a].i + 1) =>
                    /\ Days(a)[att'[a].i] = att[a].start_date + att[a].i
                    /\ \A d \in Dates :
                          available_units'[att[a].room_id][d] # available_units[att[a].room_id][d]
                              => d = att[a].start_date + att[a].i
             /\ (att[a].resp # 0 /\ att'[a] # att[a]) =>
                    available_units' = available_units]_vars

\* an attempt was refused on its second day after decrementing its first
C27_Witness ==
    \E a \in Attempts :
        /\ att[a].pc = "release" /\ att[a].resp = 409
        /\ att[a].dec = {att[a].start_date} /\ att[a].i = 1

\* C28: an attempt that has returned has given its caller an answer
C28_EveryAttemptAnswers ==
    \A a \in Attempts : att[a].pc = "done" => att[a].resp # NoAnswer

\* C29: when the rollback of an insufficient-availability refusal fails, the
\* caller is still answered 409 and the attempt goes on to release the lock
C29_RollbackFailureKeeps409 ==
    [][\A a \in Attempts, code \in {NoAnswer, 500} :
          RollbackFails(a, code) =>
              (att'[a].resp = 409 /\ att'[a].pc = "release")]_vars

\* C30: a lock key that is set is eventually absent, whether or not its
\* holder goes on, and an acquire that finds the key absent succeeds
C30_LockNeverBlocksForever ==
    /\ \A r \in Rooms : (lock[r] # 0) ~> (lock[r] = 0)
    /\ [][\A a \in Attempts :
             (AcquireLock(a) /\ lock[att[a].room_id] = 0) =>
                 (att'[a].pc = "room" /\ lock'[att[a].room_id] = a)]_vars

\* an attempt holds the room's lock while the attempt that acquired it
\* before has still not finished
C30_Witness ==
    \E a \in Attempts, b \in Attempts :
        /\ a # b /\ Holding(a) /\ Holding(b)
        /\ att[a].room_id = att[b].room_id
        /\ att[a].pc \in {"room", "days", "create"}
        /\ lock[att[b].room_id] = b

\* the users who can call: the owners of the requests
Users == {userId(a) : a \in Attempts}

\* C31: a cancel() that succeeds was called by the booking's owner on a
\* booking whose stored status is confirmed; any other call changes neither
\* the booking nor the ledger
C31_CancelOnlyByOwnerOfConfirmed ==
    [][\A c \in Cancellers, u \in Users :
          CancelBy(c, u) =>
              LET b == bookings[cdoc[c].id]
              IN IF u = b.user_id /\ b.status = "confirmed"
                 THEN cdoc'[c].result = "ok"
                 ELSE /\ cdoc'[c].result = "error"
                      /\ bookings' = bookings
                      /\ available_units' = available_units]_vars

\* C32: a replay answers with the stored booking id only when the booking
\* belongs to the user who sent the request
C32_ReplayOnlyToOwner ==
    [][\A a \in Attempts, s \in Dates, e \in Dates, q \in 1..MaxQty, k \in Keys :
          (Submit(a, 1, s, e, q, k) /\ att'[a].resp = 200) =>
              bookings[att'[a].bid].user_id = userId(a)]_vars

\* C33: an acquire is refused only when the lock key of its own room is
\* set, whatever the keys of the other rooms, and the steps of an attempt
\* change no lock key and no counter of another room
C33_RoomsAreIndependent ==
    [][\A a \in Attempts :
          LET r == att[a].room_id
          IN /\ AcquireLock(a) => (att'[a].resp = 423 <=> lock[r] # 0)
             /\ (att'[a] # att[a] /\ r \in Rooms) =>
                    \A x \in Rooms \ {r} :
                        /\ lock'[x] = lock[x]
                        /\ available_units'[x] = available_units[x]]_vars

\* two attempts hold the locks of two rooms together, each inside its day loop
C33_Witness ==
    \E a \in Attempts, b \in Attempts :
        /\ att[a].room_id # att[b].room_id
        /\ att[a].pc = "days" /\ att[a].i > 0 /\ lock[att[a].room_id] = a
        /\ att[b].pc = "days" /\ att[b].i > 0 /\ lock[att[b].room_id] = b

\* C34: a valid request whose key is stored is replayed; one whose key is
\* not stored, never stored or expired, goes on to the lock as a new attempt
C34_ReplayUntilExpiry ==
    [][\A a \in Attempts, s \in Dates, e \in Dates, q \in 1..MaxQty, k \in Keys :
          (Submit(a, 1, s, e, q, k) /\ DateRangeValid(s, e)) =>
              IF idem[k] # 0
              THEN att'[a].pc = "done" /\ att'[a].resp = 200
              ELSE /\ att'[a].pc = "lock" /\ att'[a].resp = 0
                   /\ att'[a].idemKey = k /\ att'[a].bid = 0]_vars

\* the key of a booked request has expired and a second booking was created
\* under the same key
C34_Witness ==
    \E k \in Keys, a \in Attempts, b \in Attempts :
        /\ att[a].pc = "done" /\ att[a].resp = 201
        /\ bookings[att[a].bid].token = k
        /\ idem[k] = 0
        /\ att[b].pc = "idem" /\ att[b].idemKey = k /\ att[b].bid # att[a].bid

\* C35: a day-loop step on a date that has no availability document answers
\* 409 and changes no counter; no step of a booking attempt creates a
\* document; and no booking covers a date without a document
C35_NoRecordMeans409 ==
    /\ [](\A b \in Ids : \A d \in BookedDates(bookings[b]) :
             available_units[bookings[b].room_id][d] # NoRecord)
    /\ [][\A a \in Attempts :
             /\ (DecrementDay(a)
                    /\ available_units[att[a].room_id][Days(a)[att[a].i + 1]] = NoRecord) =>
                    /\ att'[a].resp = 409 /\ att'[a].bid = 0
                    /\ available_units' = available_units
             /\ att'[a] # att[a] =>
                    \A r \in Rooms, d \in Dates :
                        available_units[r][d] = NoRecord =>
                            available_units'[r][d] = NoRecord]_vars

\* an attempt was refused on the first date without a document after it
\* had passed a date that has one
C35_Witness ==
    \E a \in Attempts :
        /\ att[a].pc = "release" /\ att[a].resp = 409
        /\ att[a].start_date < att[a].end_date
        /\ available_units[1][att[a].start_date] # NoRecord
        /\ available_units[1][att[a].start_date + 1] = NoRecord

C37_NoDeleteUnderConfirmedBooking ==
    [][\A r \in Rooms, d \in Dates :
          (available_units[r][d] # NoRecord /\ available_units'[r][d] = NoRecord) =>
              ~ \E b \in Ids :
                    /\ bookings[b].status = "confirmed"
                    /\ bookings[b].room_id = r
                    /\ d \in NightDates(bookings[b].start_date, bookings[b].end_date)]_vars

TypeOK ==
    /\ transactionsSupported \in BOOLEAN
    /\ \A a \in Attempts : att[a].i \in 0..MaxDate
    /\ Len(bookings) <= NumAttempts

====
